---- MODULE Spec2Model ----
(***************************************************************************)
(* Model of the cocotb MIPS32 test harness (cocotb_mips32/processor_test.py)*)
(* as a discrete-event system: the orchestrator wrapper of register_test,  *)
(* init_processor, the four forked co-routines (clock, read_data_mem,      *)
(* read_inst_mem, write_data_mem), the simulator's deferred signal writes  *)
(* and timers, and an opaque unit under test.                              *)
(*                                                                         *)
(* A co-routine runs from one await to the next without interruption; the  *)
(* order in which co-routines woken at the same simulation time run, and   *)
(* the moment the pending signal writes are applied, are chosen by the     *)
(* scheduler.                                                              *)
(***************************************************************************)
EXTENDS Integers, Sequences, FiniteSets, TLC

\* ------------------------------------------------------------------ bounds
\* Largest n a modelled main procedure passes to wait_cycles.
MaxWait == 2
\* Number of test cases run one after the other in the process.
NumTests == 2
\* Longest line and largest number of lines of a memory-image text.
MaxLineLen == 3
MaxLines == 2

\* --------------------------------------------------------------- constants
\* Value of a signal line that int() cannot convert (undefined, high-impedance).
Unresolved == -1
\* MIPS32ProcessorTest.CLOCK_CYCLE and an odd value a subclass may configure.
CLOCK_CYCLE == 10
OddClockCycle == CLOCK_CYCLE + 1
ClockCycles == {CLOCK_CYCLE, OddClockCycle}
\* init_processor holds reset for wait_cycles(1) and then wait_cycles(3).
ResetSetupCycles == 1
ResetHoldCyclesShort == 3 - 1
ResetHoldCycles == 3
\* The default main waits 3 cycles; TestInstr.main waits 1 cycle.
BaseMainCycles == 3
InstrMainCycles == 1
\* Encoding of "addi $1, $zero, 1" and the values TestInstr.main expects.
AddiInstr == 537001985
ExpectedReg1 == 1
ExpectedPC == 4
\* Data addresses and words the unit under test may present (0x100, 0x2A among them).
DataAddrs == {0, 256}
DataWords == {42, 7}

Tasks == {"clock", "read_data_mem", "read_inst_mem", "write_data_mem"}
Wrapper == "wrapper"
SignalNames == {"Reset", "Clk", "IAddr", "IDataIn", "DAddr", "DDataIn", "DWrEn", "DDataOut"}

\* ----------------------------------------------------------------- helpers
\* to_int(a, default=0): int(a), or the default when int() raises.
to_int(a) == IF a = Unresolved THEN 0 ELSE a

\* An empty dict / an empty set of pending writes or armed timers.
Empty == [k \in {} |-> 0]
\* d[k] = v on a dict (a function whose domain is its key set).
DictSet(d, k, v) == [x \in (DOMAIN d) \cup {k} |-> IF x = k THEN v ELSE d[x]]
\* d without key k.
DictDel(d, k) == [x \in (DOMAIN d) \ {k} |-> d[x]]

\* The word a read co-routine drives: 0 when the address is no key of the image.
ReadWordNoDefault(mem, address) == IF address \in DOMAIN mem THEN mem[address] ELSE address + 1
ReadWord(mem, address) == IF address \in DOMAIN mem THEN mem[address] ELSE 0

\* wait_cycles(n): Timer(n*self.CLOCK_CYCLE).
WaitDurationLong(n, cc) == n * cc + cc
WaitDuration(n, cc) == n * cc

\* clock(): self.CLOCK_CYCLE = 2*(self.CLOCK_CYCLE // 2)
EvenCycleNotRounded(cc) == cc
EvenCycle(cc) == 2 * (cc \div 2)
\* clock(): Timer(self.CLOCK_CYCLE // 2)
HalfPeriodFull(cc) == cc
HalfPeriod(cc) == cc \div 2
\* read_inst_mem / read_data_mem: the Timer(self.CLOCK_CYCLE // 2) of First(...)
RefreshTimeoutLong(cc) == 3 * cc
RefreshTimeoutTwoCycles(cc) == 2 * cc
RefreshTimeout(cc) == cc \div 2

\* init_processor's guard: "if self.initialized: return".
AlreadyInitializedIgnored(s) == FALSE
AlreadyInitialized(s) == s.initialized

\* The classification set by the wrapper's try/except (lines 198-206).
Classify(ending) ==
    CASE ending = "return" -> "correct"
      [] ending = "assert" -> "error"
      [] OTHER -> "exec_error"

\* `globals` without call parentheses (lines 209, 213, 225) is the builtin
\* function object: it supports neither subscription nor item assignment.
BuiltinGlobalsSubscriptable == FALSE
\* The key the store is created with (line 210) and the key it is read by (line 213).
StoreKeyCreated == "results"
StoreKeyRead == "result"

\* ---------------------------------------------------- memory-image texts
\* A text is the sequence of its lines (str.split("\n"), never empty for a
\* string), a line the sequence of its characters. The attribute value None
\* is the text of no line; the empty string is one empty line.
NoText == <<>>
EmptyText == << <<>> >>
\* "if self.data_text:" (line 45): None and "" are false.
Truthy(text) == text # NoText /\ text # EmptyText

\* line.split("\t")
RECURSIVE Split(_)
Split(line) ==
    IF line = <<>> THEN << <<>> >>
    ELSE LET rest == Split(Tail(line))
         IN IF Head(line) = "\t" THEN << <<>> >> \o rest
            ELSE << <<Head(line)>> \o Head(rest) >> \o Tail(rest)

\* int(piece, base=16): the digits int() accepts here, and its value;
\* it raises ValueError on an empty piece and on any other character.
HexChars == <<"0", "1", "2", "3", "4", "5", "6", "7", "8", "9", "a", "b", "c", "d", "e", "f">>
IsHex(piece) ==
    /\ piece # <<>>
    /\ \A i \in 1..Len(piece) : \E d \in 1..Len(HexChars) : HexChars[d] = piece[i]
HexDigit(c) == (CHOOSE d \in 1..Len(HexChars) : HexChars[d] = c) - 1
RECURSIVE HexValue(_)
HexValue(piece) ==
    IF piece = <<>> THEN 0
    ELSE 16 * HexValue(SubSeq(piece, 1, Len(piece) - 1)) + HexDigit(piece[Len(piece)])

\* memload_from_str (177-186) from the given line on, res being the dict
\* built so far: the dict returned, or the exception that leaves the function.
RECURSIVE MemLoad(_, _)
MemLoad(lines, res) ==
    IF lines = <<>> THEN [res |-> res, error |-> "none"]
    ELSE LET line == Head(lines)
             pieces == Split(line)
         IN IF line = <<>> THEN [res |-> Empty, error |-> "IndexError"]
            ELSE IF line[1] = "#" THEN MemLoad(Tail(lines), res)
            ELSE IF Len(pieces) # 2 THEN MemLoad(Tail(lines), res)
            ELSE IF ~IsHex(pieces[1]) \/ ~IsHex(pieces[2])
                 THEN [res |-> Empty, error |-> "ValueError"]
            ELSE MemLoad(Tail(lines), DictSet(res, HexValue(pieces[1]), HexValue(pieces[2])))
memload_from_str(text) == MemLoad(text, Empty)

\* ------------------------------------------------------------------- state
VARIABLES
    now,            \* simulation time (ns) since the current test case started
    sig,            \* value of every signal line of the unit under test
    pend,           \* signal writes issued and not yet applied (signal -> value)
    uut,            \* internal state of the unit under test: program counter, register 1
    uutPending,     \* a rising edge was applied and the unit under test has not reacted yet
    tpc,            \* position of each forked co-routine
    wake,           \* armed timers (task -> time)
    ready,          \* tasks whose trigger fired and that have not run yet
    self,           \* the fields of the MIPS32ProcessorTest instance
    test,           \* the test case being run (its class and main procedure)
    wpc,            \* position of the orchestrator wrapper
    initCaller,     \* who called the init_processor in progress: "wrapper" or "main"
    raised,         \* the exception the wrapper raised to its caller, or "none"
    cocotb_result,  \* module global cocotb_result: <<>> when unbound, else <<store>>
    resultsFile,    \* content of results.json: <<>> when never written, else <<document>>
    testsRun,       \* number of test cases whose wrapper has finished
    class_data,     \* the dict bound to the class attribute MIPS32ProcessorTest.data
    obs             \* observers of the run (no program state)

vars == <<now, sig, pend, uut, uutPending, tpc, wake, ready, self, test, wpc,
          initCaller, raised, cocotb_result, resultsFile, testsRun, class_data, obs>>


\* ------------------------------------------------------------- test cases
\* A test case: its class (the default main of MIPS32ProcessorTest, TestInstr,
\* or a subclass with a main of its own) and its configured CLOCK_CYCLE. The
\* cycles a subclass's main waits and the way it ends are drawn when the main
\* gets there.
Kinds == {"base", "instr", "user"}
Endings == {"return", "assert", "raise"}
\* TestInstr's asm_code has no data segment: compile_program gives it the
\* empty string as data_text; the other classes leave data_text None.
TestCase(kind, cycle) ==
    [kind |-> kind, cycle |-> cycle,
     data_text |-> IF kind = "instr" THEN EmptyText ELSE NoText]
TestCases == {TestCase(k, c) : k \in Kinds, c \in ClockCycles}
NoTest == [kind |-> "none", cycle |-> CLOCK_CYCLE, data_text |-> NoText]
WaitChoices(kind) ==
    CASE kind = "base" -> {BaseMainCycles}
      [] kind = "instr" -> {InstrMainCycles}
      [] OTHER -> 0..MaxWait

\* The instruction image of a test case: TestInstr's asm_code compiles to one
\* word at address 0; a class without asm_code keeps the empty class dict.
InstructionsOf(tc) == IF tc.kind = "instr" THEN DictSet(Empty, 0, AddiInstr) ELSE Empty

\* Without a data_text, __init__ (45-46) assigns nothing and self.data is the
\* dict of the class attribute (line 18), one object for every such instance.
SharesClassData(tc) == ~Truthy(tc.data_text)

\* The instance of a test case: the class attributes (17-30) and what __init__
\* (31-51) assigned. Instances are built when the test module is imported,
\* before any test case runs and with the class dict still empty, so line 46
\* takes the dict parsed from a data_text; self.data of an instance that
\* shares the class dict reads as that dict does now.
NewInstance(tc) ==
    [CLOCK_CYCLE |-> tc.cycle,
     data |-> IF SharesClassData(tc) THEN class_data ELSE memload_from_str(tc.data_text).res,
     instructions |-> InstructionsOf(tc),
     clock_ticking |-> TRUE,
     initialized |-> FALSE,
     result |-> "tbd",
     error |-> "none",
     t |-> 0,
     state |-> <<>>]

\* Observers, reset when a test case starts.
NewObs ==
    [forks |-> [k \in Tasks |-> 0],     \* co-routines forked, per kind
     resetPulses |-> 0,                 \* executions of reset_processor
     resetAt |-> -1,                    \* time reset was first driven to 1
     clockAt |-> -1,                    \* time the clock co-routine was forked
     resetEdges |-> 0,                  \* rising edges applied while Reset = 1
     resetHeld |-> TRUE,                \* Reset stayed 1 from its assertion to the end of init
     runEdges |-> 0,                    \* rising edges applied with Reset = 0
     initDoneAt |-> -1,                 \* time init_processor completed
     edges |-> 0,                       \* rising edges since write_data_mem was forked
     samples |-> 0,                     \* rising edges write_data_mem has sampled
     lastStore |-> Empty,               \* per address, the word on DDataOut at the latest edge with DWrEn = 1
     overwritten |-> FALSE,             \* an edge stored to an address whose latest store held another word
     prevStore |-> <<>>,                \* the store (address, word) of the latest edge, if it was one
     loaded |-> <<>>,                   \* at the edge after a store with DAddr at its address: the word stored, the word on DDataIn
     lastRead |-> Empty,                \* per read task: the raw address it read, the word it drove, the image it read
     ending |-> "none",                 \* how the main procedure ended
     waited |-> -1,                     \* the n of the main procedure's wait_cycles(n)
     initCalls |-> 0,                   \* calls of init_processor
     noopCalls |-> 0,                   \* calls of init_processor that returned at the guard
     phaseAt |-> -1,                    \* time the clock phase in progress began (clock co-routine active)
     phaseLen |-> -1,                   \* length of the latest completed clock phase
     halfUsed |-> -1,                   \* the duration of the Timer the clock co-routine armed last
     addrKept |-> [IAddr |-> FALSE, DAddr |-> FALSE],  \* the address line kept its value over the latest two clock edges
     storedAt |-> -1,                   \* time of the latest change of the data image
     captured |-> <<>>]                 \* per snapshot of the trace: program counter and register 1 when it was taken

InitialSignals == [s \in SignalNames |-> IF s = "DWrEn" THEN 0 ELSE Unresolved]

Init ==
    /\ class_data = Empty
    /\ now = 0
    /\ sig = InitialSignals
    /\ pend = Empty
    /\ uut = [pc |-> Unresolved, r1 |-> Unresolved]
    /\ uutPending = FALSE
    /\ tpc = [k \in Tasks |-> "none"]
    /\ wake = Empty
    /\ ready = {}
    /\ self = NewInstance(NoTest)
    /\ test = NoTest
    /\ wpc = "idle"
    /\ initCaller = "wrapper"
    /\ raised = "none"
    /\ cocotb_result = <<>>
    /\ resultsFile = <<>>
    /\ testsRun = 0
    /\ obs = NewObs

\* Positions at which the wrapper holds the processor: no other co-routine
\* runs and the simulator does not proceed until it reaches an await.
RunningPcs == {"wrapper_begin", "main_begin", "main_body", "record"}
Quiet == wpc \notin RunningPcs /\ wpc \notin {"idle", "done"}

\* ------------------------------------------------------ forked co-routines
\* The part of the state a co-routine step changes besides the instance:
\* pending writes, timers, positions and the observers of the read tasks.
Machine == [pend |-> pend, wake |-> wake, tpc |-> tpc, lastRead |-> obs.lastRead]

AddrLine(task) == IF task = "read_data_mem" THEN "DAddr" ELSE "IAddr"
DataLine(task) == IF task = "read_data_mem" THEN "DDataIn" ELSE "IDataIn"
Image(task) == IF task = "read_data_mem" THEN self.data ELSE self.instructions

\* clock(), lines 57-59: the loop test, the low phase and its timer.
ClockLoop(m, cc) ==
    IF self.clock_ticking
    THEN [m EXCEPT !.pend = DictSet(@, "Clk", 0),
                   !.wake = DictSet(@, "clock", now + HalfPeriod(cc)),
                   !.tpc["clock"] = "low"]
    ELSE [m EXCEPT !.wake = DictDel(@, "clock"), !.tpc["clock"] = "done"]

\* read_inst_mem / read_data_mem, lines 78-84 and 88-94: the loop test, the
\* look-up, the drive and the First(Edge, Timer) wait.
ReadLoop(m, task, cc) ==
    IF self.clock_ticking
    THEN LET raw == sig[AddrLine(task)]
             word == ReadWord(Image(task), to_int(raw))
         IN [m EXCEPT !.pend = DictSet(@, DataLine(task), word),
                      !.wake = DictSet(@, task, now + RefreshTimeout(cc)),
                      !.tpc[task] = "wait",
                      !.lastRead = DictSet(@, task, [raw |-> raw, word |-> word, image |-> Image(task)])]
    ELSE [m EXCEPT !.wake = DictDel(@, task), !.tpc[task] = "done"]

\* write_data_mem, lines 98-99: the loop test and the RisingEdge wait.
WriteLoop(m) ==
    IF self.clock_ticking
    THEN [m EXCEPT !.tpc["write_data_mem"] = "wait"]
    ELSE [m EXCEPT !.tpc["write_data_mem"] = "done"]

\* saveState (68-74): the clock line as read now, the tick, and the PC handle
\* and the Regs method as the objects they are.
saveState(state, t) ==
    Append(state, [clk |-> sig.Clk, t |-> t, PC |-> "uut.IAddr", regs |-> "self.Regs"])

\* Reading an entry of a snapshot: the PC property (110-112) returned the
\* handle of the IAddr line and self.Regs (118-119) is the method that returns
\* the register file, so either reads as the unit under test is now.
Deref(ref) == IF ref = "uut.IAddr" THEN sig.IAddr ELSE uut.r1

\* What the lines a snapshot refers to carry when it is taken.
Captured == [PC |-> sig.IAddr, r1 |-> uut.r1]

\* ------------------------------------------------- init_processor (158-175)
\* reset_processor (151-156).
reset_processor(p) ==
    DictSet(DictSet(DictSet(DictSet(p, "Reset", 1), "IDataIn", 0), "DDataIn", 0), "Clk", 0)

\* Lines 160-165 of a call made by `caller`: nothing when already initialized,
\* else the reset pulse and the first wait.
InitProcessorCall(caller, afterNoop) ==
    IF AlreadyInitialized(self)
    THEN /\ wpc' = afterNoop
         /\ obs' = [obs EXCEPT !.initCalls = @ + 1, !.noopCalls = @ + 1]
         /\ UNCHANGED <<pend, wake, initCaller>>
    ELSE /\ pend' = reset_processor(pend)
         /\ wake' = DictSet(wake, Wrapper, now + WaitDuration(ResetSetupCycles, self.CLOCK_CYCLE))
         /\ wpc' = "init_wait1"
         /\ initCaller' = caller
         /\ obs' = [obs EXCEPT !.initCalls = @ + 1,
                               !.resetPulses = @ + 1,
                               !.resetAt = IF @ = -1 THEN now ELSE @]

\* The test runner calls the wrapper of a test-case instance (line 196).
StartTestOf(cases) ==
    /\ wpc = "idle"
    /\ \E tc \in cases :
        /\ test' = tc
        /\ self' = NewInstance(tc)
    /\ wpc' = "wrapper_begin"
    /\ UNCHANGED <<now, sig, pend, uut, uutPending, tpc, wake, ready, initCaller, raised,
                   cocotb_result, resultsFile, testsRun, class_data, obs>>

StartTest == StartTestOf(TestCases)

\* wrapper, line 197: await self.init_processor(uut).
WrapperCallsInit ==
    /\ wpc = "wrapper_begin"
    /\ InitProcessorCall("wrapper", "main_begin")
    /\ UNCHANGED <<now, sig, uut, uutPending, tpc, ready, self, test, raised,
                   cocotb_result, resultsFile, testsRun, class_data>>

\* init_processor, lines 166-171: after the first wait, reset is driven again,
\* the four co-routines are forked (each runs to its first await) and the
\* second wait begins.
InitAfterWait1 ==
    /\ wpc = "init_wait1"
    /\ Wrapper \in ready
    /\ LET cc == EvenCycle(self.CLOCK_CYCLE)
           m0 == [Machine EXCEPT !.pend = DictSet(@, "Reset", 1)]
           m1 == ClockLoop(m0, cc)
           m2 == ReadLoop(m1, "read_data_mem", cc)
           m3 == ReadLoop(m2, "read_inst_mem", cc)
           m4 == WriteLoop(m3)
       IN /\ self' = [self EXCEPT !.CLOCK_CYCLE = cc]
          /\ pend' = m4.pend
          /\ tpc' = m4.tpc
          /\ wake' = DictSet(m4.wake, Wrapper, now + WaitDuration(ResetHoldCycles, cc))
          /\ obs' = [obs EXCEPT !.forks = [k \in Tasks |-> @[k] + 1],
                                !.clockAt = IF @ = -1 THEN now ELSE @,
                                !.lastRead = m4.lastRead,
                                !.phaseAt = now,
                                !.halfUsed = IF "clock" \in DOMAIN m4.wake
                                             THEN m4.wake["clock"] - now ELSE @]
    /\ ready' = ready \ {Wrapper}
    /\ wpc' = "init_wait3"
    /\ UNCHANGED <<now, sig, uut, uutPending, test, initCaller, raised, cocotb_result,
                   resultsFile, testsRun, class_data>>

\* init_processor, lines 172-175: after the second wait the tick counter and
\* the trace are reset, reset is released and the instance is initialized.
\* The caller continues without suspending.
InitAfterWait3 ==
    /\ wpc = "init_wait3"
    /\ Wrapper \in ready
    /\ self' = [self EXCEPT !.t = 0, !.state = <<>>, !.initialized = TRUE]
    /\ pend' = DictSet(pend, "Reset", 0)
    /\ ready' = ready \ {Wrapper}
    /\ wpc' = IF initCaller = "wrapper" THEN "main_begin" ELSE "main_body"
    /\ obs' = [obs EXCEPT !.initDoneAt = now, !.runEdges = 0, !.captured = <<>>]
    /\ UNCHANGED <<now, sig, uut, uutPending, tpc, wake, test, initCaller, raised,
                   cocotb_result, resultsFile, testsRun, class_data>>

\* ------------------------------------------------------- main procedures
\* TestInstr.main, line 9: the main procedure calls init_processor again.
MainCallsInit ==
    /\ wpc = "main_begin"
    /\ test.kind = "instr"
    /\ InitProcessorCall("main", "main_body")
    /\ UNCHANGED <<now, sig, uut, uutPending, tpc, ready, self, test, raised,
                   cocotb_result, resultsFile, testsRun, class_data>>

\* A main procedure that does not call init_processor starts its body.
MainSkipsInit ==
    /\ wpc = "main_begin"
    /\ test.kind # "instr"
    /\ wpc' = "main_body"
    /\ UNCHANGED <<now, sig, pend, uut, uutPending, tpc, wake, ready, self, test,
                   initCaller, raised, cocotb_result, resultsFile, testsRun, class_data, obs>>

\* The main procedure waits: await self.wait_cycles(n).
MainWaits ==
    /\ wpc = "main_body"
    /\ \E n \in WaitChoices(test.kind) :
        /\ wake' = DictSet(wake, Wrapper, now + WaitDuration(n, self.CLOCK_CYCLE))
        /\ obs' = [obs EXCEPT !.waited = n]
    /\ wpc' = "main_wait"
    /\ UNCHANGED <<now, sig, pend, uut, uutPending, tpc, ready, self, test, initCaller,
                   raised, cocotb_result, resultsFile, testsRun, class_data>>

\* How the main procedure ends once its wait is over: the default main clears
\* clock_ticking and returns (240-242); TestInstr.main asserts register 1 and
\* the program counter (test_instr.py 11-12); another main ends as the test
\* case says.
MainEndings ==
    CASE test.kind = "base" -> {"return"}
      [] test.kind = "instr" ->
            IF uut.r1 = ExpectedReg1 /\ sig.IAddr = ExpectedPC THEN {"return"} ELSE {"assert"}
      [] OTHER -> Endings

ErrorOf(ending) ==
    CASE ending = "return" -> "none"
      [] ending = "assert" -> "AssertionError"
      [] OTHER -> "Exception"

\* The main procedure resumes after its wait and ends; the wrapper's
\* try/except (198-206) sets result and error.
MainResumes ==
    /\ wpc = "main_wait"
    /\ Wrapper \in ready
    /\ \E ending \in MainEndings :
          /\ self' = [self EXCEPT !.clock_ticking = IF test.kind = "base" THEN FALSE ELSE @,
                                  !.result = Classify(ending),
                                  !.error = ErrorOf(ending)]
          /\ obs' = [obs EXCEPT !.ending = ending]
    /\ ready' = ready \ {Wrapper}
    /\ wpc' = "record"
    /\ UNCHANGED <<now, sig, pend, uut, uutPending, tpc, wake, test, initCaller, raised,
                   cocotb_result, resultsFile, testsRun, class_data>>

\* ---------------------------------------------- wrapper, lines 208-228
\* The entry the wrapper builds for the test case (lines 213-222).
Outcome ==
    [name |-> test.kind, data |-> self.data, instructions |-> self.instructions,
     state |-> self.state, result |-> self.result]

\* Line 208 finds cocotb_result unbound, and line 209 subscripts the builtin
\* `globals`: TypeError leaves the wrapper before anything is appended or
\* written. Were `globals` subscriptable, the store created under "results"
\* would be read under "result" (KeyError); only with one key would the
\* outcome be appended, the document rewritten and self.error re-raised.
WrapperRecord ==
    /\ wpc = "record"
    /\ LET created == IF cocotb_result = <<>>
                      THEN <<[key |-> StoreKeyCreated, items |-> <<>>]>>
                      ELSE cocotb_result
           appended == <<[created[1] EXCEPT !.items = Append(@, Outcome)]>>
       IN IF ~BuiltinGlobalsSubscriptable
          THEN /\ raised' = "TypeError"
               /\ UNCHANGED <<cocotb_result, resultsFile>>
          ELSE IF created[1].key # StoreKeyRead
          THEN /\ raised' = "KeyError"
               /\ cocotb_result' = created
               /\ UNCHANGED resultsFile
          ELSE /\ raised' = self.error
               /\ cocotb_result' = appended
               /\ resultsFile' = appended
    /\ wpc' = "done"
    /\ testsRun' = testsRun + 1
    /\ UNCHANGED <<now, sig, pend, uut, uutPending, tpc, wake, ready, self, test,
                   initCaller, obs, class_data>>

\* The test runner ends the finished test (its co-routines are discarded with
\* it) and turns to the next test case; time is counted from there again and
\* the lines are taken as undriven again until the next reset pulse.
NextTest ==
    /\ wpc = "done"
    /\ testsRun < NumTests
    /\ wpc' = "idle"
    /\ now' = 0
    /\ pend' = Empty
    /\ wake' = Empty
    /\ ready' = {}
    /\ tpc' = [k \in Tasks |-> "none"]
    /\ uutPending' = FALSE
    /\ self' = NewInstance(NoTest)
    /\ test' = NoTest
    /\ initCaller' = "wrapper"
    /\ raised' = "none"
    /\ obs' = NewObs
    /\ sig' = InitialSignals
    /\ uut' = [pc |-> Unresolved, r1 |-> Unresolved]
    /\ UNCHANGED <<cocotb_result, resultsFile, testsRun, class_data>>


\* ------------------------------------------------- co-routine resumptions
\* clock(), lines 60-63: the low phase is over.
ClockRises ==
    /\ Quiet
    /\ "clock" \in ready
    /\ tpc["clock"] = "low"
    /\ self' = [self EXCEPT !.state = IF self.initialized THEN saveState(@, self.t) ELSE @]
    /\ pend' = DictSet(pend, "Clk", 1)
    /\ wake' = DictSet(wake, "clock", now + HalfPeriod(self.CLOCK_CYCLE))
    /\ tpc' = [tpc EXCEPT !["clock"] = "high"]
    /\ ready' = ready \ {"clock"}
    /\ obs' = [obs EXCEPT !.halfUsed = wake'["clock"] - now,
                          !.captured = IF self.initialized THEN Append(@, Captured) ELSE @]
    /\ UNCHANGED <<now, sig, uut, uutPending, test, wpc, initCaller, raised,
                   cocotb_result, resultsFile, testsRun, class_data>>

\* clock(), lines 64-66 and 57-59: the high phase is over, the tick counter
\* advances and the loop goes round.
ClockFalls ==
    /\ Quiet
    /\ "clock" \in ready
    /\ tpc["clock"] = "high"
    /\ self' = [self EXCEPT !.state = IF self.initialized THEN saveState(@, self.t) ELSE @,
                            !.t = @ + 1]
    /\ LET m == ClockLoop(Machine, self.CLOCK_CYCLE)
       IN /\ pend' = m.pend
          /\ wake' = m.wake
          /\ tpc' = m.tpc
          /\ obs' = [obs EXCEPT !.halfUsed = IF "clock" \in DOMAIN m.wake
                                             THEN m.wake["clock"] - now ELSE @,
                                !.captured = IF self.initialized THEN Append(@, Captured) ELSE @]
    /\ ready' = ready \ {"clock"}
    /\ UNCHANGED <<now, sig, uut, uutPending, test, wpc, initCaller, raised,
                   cocotb_result, resultsFile, testsRun, class_data>>

\* read_data_mem / read_inst_mem resumed by the address edge or the timer.
ReadResumes(task) ==
    /\ Quiet
    /\ task \in ready
    /\ LET m == ReadLoop(Machine, task, self.CLOCK_CYCLE)
       IN /\ pend' = m.pend
          /\ wake' = m.wake
          /\ tpc' = m.tpc
          /\ obs' = [obs EXCEPT !.lastRead = m.lastRead]
    /\ ready' = ready \ {task}
    /\ UNCHANGED <<now, sig, uut, uutPending, self, test, wpc, initCaller, raised,
                   cocotb_result, resultsFile, testsRun, class_data>>

\* write_data_mem, lines 100-102: the address is read, and with DWrEn = 1 the
\* word on DDataOut is stored under it; int() of an unresolved DDataOut raises
\* and ends the co-routine.
StoreAtNextWord(data, address, word) == DictSet(data, address + 4, word)
StoreFirstWriteWins(data, address, word) == IF address \in DOMAIN data THEN data ELSE DictSet(data, address, word)
Store(data, address, word) == DictSet(data, address, word)

WriteResumes ==
    /\ Quiet
    /\ "write_data_mem" \in ready
    /\ LET address == to_int(sig.DAddr)
           raises == sig.DWrEn = 1 /\ sig.DDataOut = Unresolved
       IN /\ self' = [self EXCEPT !.data = IF sig.DWrEn = 1 /\ ~raises
                                           THEN Store(@, address, sig.DDataOut) ELSE @]
          /\ class_data' = IF SharesClassData(test) THEN self'.data ELSE class_data
          /\ tpc' = IF raises THEN [tpc EXCEPT !["write_data_mem"] = "failed"]
                    ELSE WriteLoop(Machine).tpc
    /\ ready' = ready \ {"write_data_mem"}
    /\ obs' = [obs EXCEPT !.samples = @ + 1,
                          !.storedAt = IF self'.data # self.data THEN now ELSE @]
    /\ UNCHANGED <<now, sig, pend, uut, uutPending, wake, test, wpc, initCaller, raised,
                   cocotb_result, resultsFile, testsRun>>

\* ------------------------------------------------------------ simulator
\* The simulator applies the pending writes (all at once). A Clk that becomes
\* 1 is a rising edge: it resumes write_data_mem and clocks the unit under test.
ApplyWrites ==
    /\ Quiet
    /\ ~uutPending
    /\ DOMAIN pend # {}
    /\ LET new == [s \in SignalNames |-> IF s \in DOMAIN pend THEN pend[s] ELSE sig[s]]
           rising == sig.Clk # 1 /\ new.Clk = 1
           sampled == rising /\ tpc["write_data_mem"] = "wait"
           stores == sampled /\ new.DWrEn = 1 /\ new.DDataOut # Unresolved
           address == to_int(new.DAddr)
           toggles == new.Clk # sig.Clk /\ tpc["clock"] \in {"low", "high"}
       IN /\ sig' = new
          /\ uutPending' = rising
          /\ ready' = IF rising /\ tpc["write_data_mem"] = "wait"
                      THEN ready \cup {"write_data_mem"} ELSE ready
          /\ obs' = [obs EXCEPT
                !.phaseLen = IF toggles THEN now - obs.phaseAt ELSE @,
                !.phaseAt = IF toggles THEN now ELSE @,
                !.resetEdges = IF rising /\ new.Reset = 1 THEN @ + 1 ELSE @,
                !.runEdges = IF rising /\ new.Reset = 0 THEN @ + 1 ELSE @,
                !.resetHeld = @ /\ (sig.Reset = 1 => new.Reset = 1 \/ self.initialized),
                !.edges = IF sampled THEN @ + 1 ELSE @,
                !.lastStore = IF stores THEN DictSet(@, address, new.DDataOut) ELSE @,
                !.overwritten = @ \/ (/\ stores
                                      /\ address \in DOMAIN obs.lastStore
                                      /\ obs.lastStore[address] # new.DDataOut),
                !.prevStore = IF stores THEN <<[a |-> address, v |-> new.DDataOut]>>
                              ELSE IF rising THEN <<>> ELSE @,
                !.loaded = IF rising /\ obs.prevStore # <<>> /\ new.DAddr = obs.prevStore[1].a
                           THEN <<[expect |-> obs.prevStore[1].v, got |-> new.DDataIn]>>
                           ELSE @]
    /\ pend' = Empty
    /\ UNCHANGED <<now, uut, tpc, wake, self, test, wpc, initCaller, raised,
                   cocotb_result, resultsFile, testsRun, class_data>>

\* The data-side outputs (DWrEn, DDataOut) the unit under test may show after
\* an edge: none while it is held in reset, a store of any word (or of an
\* unresolved one) otherwise.
DataOutputs(reset) ==
    IF reset = 1 THEN {<<0, Unresolved>>}
    ELSE {<<0, Unresolved>>} \cup {<<1, w>> : w \in DataWords \cup {Unresolved}}

\* The unit under test, clocked by the rising edge once write_data_mem has
\* sampled its lines: under reset the program counter and register 1 clear,
\* else the fetched instruction executes and the program counter advances;
\* the data address takes any value. An address line that changes
\* resumes the read co-routine waiting for its Edge.
UUTReact ==
    /\ Quiet
    /\ uutPending
    /\ "write_data_mem" \notin ready
    /\ \E daddr \in DataAddrs \cup {Unresolved}, out \in DataOutputs(sig.Reset) :
        LET wren == out[1]
            dout == out[2]
            pc == IF sig.Reset = 1 THEN 0 ELSE to_int(uut.pc) + 4
            r1 == IF sig.Reset = 1 THEN 0
                  ELSE IF sig.IDataIn = AddiInstr THEN 1 ELSE uut.r1
            woken == {k \in {"read_data_mem", "read_inst_mem"} :
                        /\ tpc[k] = "wait"
                        /\ IF k = "read_data_mem" THEN daddr # sig.DAddr ELSE pc # sig.IAddr}
        IN /\ uut' = [pc |-> pc, r1 |-> r1]
           /\ sig' = [sig EXCEPT !.IAddr = pc, !.DAddr = daddr, !.DWrEn = wren, !.DDataOut = dout]
           /\ ready' = ready \cup woken
           /\ wake' = [k \in (DOMAIN wake) \ woken |-> wake[k]]
           /\ obs' = [obs EXCEPT !.addrKept = [IAddr |-> pc = sig.IAddr, DAddr |-> daddr = sig.DAddr]]
    /\ uutPending' = FALSE
    /\ UNCHANGED <<now, pend, tpc, self, test, wpc, initCaller, raised, cocotb_result,
                   resultsFile, testsRun, class_data>>

\* Nothing is left to do at this time: the simulator advances to the earliest
\* timer and every timer set for that time fires.
Advance ==
    /\ Quiet
    /\ ready = {}
    /\ DOMAIN pend = {}
    /\ ~uutPending
    /\ DOMAIN wake # {}
    /\ LET next == CHOOSE x \in {wake[k] : k \in DOMAIN wake} :
                        \A k \in DOMAIN wake : x <= wake[k]
           fired == {k \in DOMAIN wake : wake[k] = next}
       IN /\ now' = next
          /\ ready' = fired
          /\ wake' = [k \in (DOMAIN wake) \ fired |-> wake[k]]
    /\ UNCHANGED <<sig, pend, uut, uutPending, tpc, self, test, wpc, initCaller, raised,
                   cocotb_result, resultsFile, testsRun, class_data, obs>>

\* One test case run in a fresh process.
Next ==
    \/ StartTest
    \/ WrapperCallsInit
    \/ InitAfterWait1
    \/ InitAfterWait3
    \/ MainCallsInit
    \/ MainSkipsInit
    \/ MainWaits
    \/ MainResumes
    \/ WrapperRecord
    \/ ClockRises
    \/ ClockFalls
    \/ ReadResumes("read_data_mem")
    \/ ReadResumes("read_inst_mem")
    \/ WriteResumes
    \/ ApplyWrites
    \/ UUTReact
    \/ Advance

Spec == Init /\ [][Next]_vars

\* ------------------------------------- a main that stops the co-routines
\* A test case whose main, like the default main (241), clears clock_ticking
\* itself, and then keeps the simulation running for some cycles:
\*   await self.wait_cycles(n); self.clock_ticking = False; await self.wait_cycles(m)
StopCases == {[kind |-> "stop", cycle |-> c, data_text |-> NoText] : c \in ClockCycles}
StartStopTest == StartTestOf(StopCases)

\* The first wait is over: the flag is cleared and the second wait begins.
MainStops ==
    /\ wpc = "main_wait"
    /\ test.kind = "stop"
    /\ Wrapper \in ready
    /\ \E m \in 1..MaxWait :
          wake' = DictSet(wake, Wrapper, now + WaitDuration(m, self.CLOCK_CYCLE))
    /\ self' = [self EXCEPT !.clock_ticking = FALSE]
    /\ ready' = ready \ {Wrapper}
    /\ wpc' = "stop_wait"
    /\ UNCHANGED <<now, sig, pend, uut, uutPending, tpc, test, initCaller, raised,
                   cocotb_result, resultsFile, testsRun, class_data, obs>>

\* The second wait is over and the main returns (wrapper, line 200).
MainReturns ==
    /\ wpc = "stop_wait"
    /\ Wrapper \in ready
    /\ self' = [self EXCEPT !.result = Classify("return"), !.error = ErrorOf("return")]
    /\ obs' = [obs EXCEPT !.ending = "return"]
    /\ ready' = ready \ {Wrapper}
    /\ wpc' = "record"
    /\ UNCHANGED <<now, sig, pend, uut, uutPending, tpc, wake, test, initCaller, raised,
                   cocotb_result, resultsFile, testsRun, class_data>>

NextStop ==
    \/ StartStopTest
    \/ WrapperCallsInit
    \/ InitAfterWait1
    \/ InitAfterWait3
    \/ MainSkipsInit
    \/ MainWaits
    \/ MainStops
    \/ MainReturns
    \/ WrapperRecord
    \/ ClockRises
    \/ ClockFalls
    \/ ReadResumes("read_data_mem")
    \/ ReadResumes("read_inst_mem")
    \/ WriteResumes
    \/ ApplyWrites
    \/ UUTReact
    \/ Advance

SpecStop == Init /\ [][NextStop]_vars

\* ------------------------------------------ construction of an instance
\* The characters of the texts tried: the comment mark, the field separator
\* and two hexadecimal digits.
TextChars == {"#", "\t", "1", "a"}
LinesUpTo(len) == UNION {[1..n -> TextChars] : n \in 0..len}
TextsUpTo(lines, len) == UNION {[1..n -> LinesUpTo(len)] : n \in 1..lines}
ParseCases ==
    {[kind |-> "text", cycle |-> CLOCK_CYCLE, data_text |-> t] : t \in TextsUpTo(MaxLines, MaxLineLen)}

\* A test module being imported, about to build the instance of its class.
InitParse ==
    /\ class_data = Empty
    /\ now = 0
    /\ sig = InitialSignals
    /\ pend = Empty
    /\ uut = [pc |-> Unresolved, r1 |-> Unresolved]
    /\ uutPending = FALSE
    /\ tpc = [k \in Tasks |-> "none"]
    /\ wake = Empty
    /\ ready = {}
    /\ self = NewInstance(NoTest)
    /\ test \in ParseCases
    /\ wpc = "import"
    /\ initCaller = "wrapper"
    /\ raised = "none"
    /\ cocotb_result = <<>>
    /\ resultsFile = <<>>
    /\ testsRun = 0
    /\ obs = NewObs

\* __init__ (31-51): with a data_text, memload_from_str builds self.data, and
\* an exception it raises leaves the constructor.
Construct ==
    /\ wpc = "import"
    /\ LET loaded == memload_from_str(test.data_text)
       IN IF Truthy(test.data_text) /\ loaded.error # "none"
          THEN /\ raised' = loaded.error
               /\ wpc' = "import_failed"
               /\ UNCHANGED self
          ELSE /\ self' = NewInstance(test)
               /\ wpc' = "constructed"
               /\ UNCHANGED raised
    /\ UNCHANGED <<now, sig, pend, uut, uutPending, tpc, wake, ready, test, initCaller,
                   cocotb_result, resultsFile, testsRun, class_data, obs>>

NextParse == Construct

SpecParse == InitParse /\ [][NextParse]_vars

\* ------------------------------- test cases one after the other in a process
\* The text "100\t2a": word 0x2a at address 0x100.
SomeText == << <<"1", "0", "0", "\t", "2", "a">> >>
SuiteCases ==
    {[kind |-> "user", cycle |-> CLOCK_CYCLE, data_text |-> t] : t \in {NoText, EmptyText, SomeText}}
StartSuiteTest == StartTestOf(SuiteCases)

NextSuite ==
    \/ StartSuiteTest
    \/ WrapperCallsInit
    \/ InitAfterWait1
    \/ InitAfterWait3
    \/ MainSkipsInit
    \/ MainWaits
    \/ MainResumes
    \/ WrapperRecord
    \/ NextTest
    \/ ClockRises
    \/ ClockFalls
    \/ ReadResumes("read_data_mem")
    \/ ReadResumes("read_inst_mem")
    \/ WriteResumes
    \/ ApplyWrites
    \/ UUTReact
    \/ Advance

SpecSuite == Init /\ [][NextSuite]_vars

\* ================================================================ claims
WrapperDone == wpc = "done"
MainFailed == obs.ending \in {"assert", "raise"}
StoreItems == IF cocotb_result = <<>> THEN <<>> ELSE cocotb_result[1].items
IdleWriter == tpc["write_data_mem"] = "wait" /\ "write_data_mem" \notin ready

\* C1: when the main procedure fails, the wrapper has appended the test's
\* outcome to the store and rewritten results.json by the time the failure
\* reaches the caller, and what reaches the caller is that failure.
C1_FailureRecordedBeforeRaise ==
    (WrapperDone /\ MainFailed) =>
        /\ StoreItems # <<>>
        /\ StoreItems[Len(StoreItems)].name = test.kind
        /\ resultsFile = cocotb_result
        /\ raised = ErrorOf(obs.ending)

\* C2: the outcome recorded for a finished test case carries the
\* classification of the way its main ended: "correct" for a return, "error"
\* (assertion failed) for an assertion failure, "exec_error" for any other
\* exception, and never "tbd".
C2_OutcomeClassified ==
    WrapperDone =>
        /\ StoreItems # <<>>
        /\ StoreItems[Len(StoreItems)].result =
              (CASE obs.ending = "return" -> "correct"
                 [] obs.ending = "assert" -> "error"
                 [] OTHER -> "exec_error")

\* C3: after the k-th completion the store holds exactly k outcomes and
\* results.json equals the store; before the first completion there is no store.
C3_StoreHoldsEveryCompletion ==
    /\ Len(StoreItems) = testsRun
    /\ (testsRun = 0) = (cocotb_result = <<>>)
    /\ resultsFile = cocotb_result

\* C4: once the main procedure has completed and the wrapper has finished,
\* clock_ticking is cleared, whatever the main procedure did itself.
C4_FlagClearedOnCompletion ==
    WrapperDone => ~self.clock_ticking

\* C5: init_processor called on an initialized test case changes no line, no
\* pending write, no co-routine, no timer and no field of the instance (tick
\* counter and trace included), and after the main procedure's own call there
\* is still one co-routine of each kind and one reset pulse.
C5_SecondCall == wpc = "main_begin" /\ test.kind = "instr" /\ self.initialized
C5_InitIdempotent ==
    /\ [][C5_SecondCall =>
            /\ UNCHANGED <<sig, pend, tpc, wake, ready, self, now>>
            /\ obs'.forks = obs.forks
            /\ obs'.resetPulses = obs.resetPulses
            /\ wpc' = "main_body"]_vars
    /\ [](obs.noopCalls > 0 =>
            /\ \A k \in Tasks : obs.forks[k] = 1
            /\ obs.resetPulses = 1)
C5_Witness ==
    /\ test.kind = "instr"
    /\ wpc = "main_body"
    /\ obs.initCalls = 2
    /\ obs.noopCalls = 1
    /\ \A k \in Tasks : obs.forks[k] = 1 /\ tpc[k] # "none"

\* C6: when init_processor completes, the release of reset has just been
\* driven, the reset line was 1 at every moment since it was first asserted,
\* three rising edges and three full periods of the clock have passed under
\* reset, and the line is 0 before the simulation time moves on; until then
\* the harness never drives reset to 0.
InitJustCompleted == self.initialized /\ wpc = "main_begin" /\ now = obs.initDoneAt
C6_ResetHeldThreeCycles ==
    /\ InitJustCompleted =>
        /\ "Reset" \in DOMAIN pend /\ pend["Reset"] = 0
        /\ sig.Reset = 1
        /\ obs.resetHeld
        /\ obs.resetEdges >= 3
        /\ now - obs.clockAt >= 3 * self.CLOCK_CYCLE
        /\ now - obs.resetAt >= 3 * self.CLOCK_CYCLE
    /\ (~self.initialized /\ obs.resetAt # -1) =>
        /\ "Reset" \in DOMAIN pend => pend["Reset"] = 1
        /\ sig.Reset \in {Unresolved, 1}
        /\ obs.resetHeld
    /\ (self.initialized /\ now > obs.initDoneAt) => sig.Reset = 0
C6_Witness ==
    /\ InitJustCompleted
    /\ obs.resetEdges = 3
    /\ "Reset" \in DOMAIN pend
    /\ pend["Reset"] = 0
    /\ now - obs.resetAt = 40

\* C7: when the main procedure resumes from wait_cycles(n) after
\* init_processor, exactly n rising edges have been applied with reset
\* released, whatever the order of the co-routines woken at the same time;
\* TestInstr (n = 1) then reads register 1 = 1 and program counter = 4.
C7_WaitCountsRisingEdges ==
    wpc = "record" =>
        /\ obs.runEdges = obs.waited
        /\ test.kind = "instr" =>
              /\ uut.r1 = ExpectedReg1
              /\ sig.IAddr = ExpectedPC
              /\ obs.ending = "return"
C7_Witness ==
    /\ wpc = "record"
    /\ test.kind = "instr"
    /\ obs.waited = 1
    /\ obs.runEdges = 1
    /\ uut.r1 = 1
    /\ sig.IAddr = 4

\* C8: a read co-routine drives 0 for an address that is no key of its image,
\* reads an unresolved address line as address 0, and never fails.
C8_UnmappedReadsZero ==
    \A k \in {"read_data_mem", "read_inst_mem"} :
        /\ tpc[k] # "failed"
        /\ k \in DOMAIN obs.lastRead =>
            LET r == obs.lastRead[k]
            IN /\ (r.raw # Unresolved /\ r.raw \notin DOMAIN r.image) => r.word = 0
               /\ (r.raw = Unresolved /\ 0 \notin DOMAIN r.image) => r.word = 0
               /\ (r.raw = Unresolved /\ 0 \in DOMAIN r.image) => r.word = r.image[0]
               /\ DataLine(k) \in DOMAIN pend => pend[DataLine(k)] = r.word
C8_Witness ==
    /\ DOMAIN obs.lastRead = {"read_data_mem", "read_inst_mem"}
    /\ obs.lastRead["read_inst_mem"].raw = Unresolved
    /\ obs.lastRead["read_inst_mem"].word = AddiInstr
    /\ obs.lastRead["read_data_mem"].raw = 256
    /\ 256 \notin DOMAIN obs.lastRead["read_data_mem"].image
    /\ obs.lastRead["read_data_mem"].word = 0
    /\ "DDataIn" \in DOMAIN pend
    /\ pend["DDataIn"] = 0

C10_StoreThenLoadReadsBack ==
    obs.loaded # <<>> => obs.loaded[1].got = obs.loaded[1].expect
C10_Witness ==
    /\ obs.loaded = <<[expect |-> 42, got |-> 42]>>
    /\ 256 \in DOMAIN self.data
    /\ self.data[256] = 42
    /\ sig.DAddr = 256

\* All co-routines woken at this simulation time have run and their writes
\* are applied: the lines are as an observer sees them at this time.
EndOfStep == Quiet /\ ready = {} /\ DOMAIN pend = {} /\ ~uutPending
ClockActive == tpc["clock"] \in {"low", "high"}
PhaseValue == IF tpc["clock"] = "low" THEN 0 ELSE 1

\* C11: while the clock co-routine is active the clock line is 0 in its low
\* phase and 1 in its high phase, the phases follow one another, and every
\* completed phase, the first one and those around the end of init_processor
\* included, lasted exactly half the configured CLOCK_CYCLE.
C11_ClockAlternates ==
    ClockActive =>
        /\ obs.phaseLen # -1 => obs.phaseLen = test.cycle \div 2
        /\ now - obs.phaseAt <= test.cycle \div 2
        /\ "Clk" \notin DOMAIN pend => sig.Clk = PhaseValue
        /\ "Clk" \in DOMAIN pend =>
              /\ pend["Clk"] = PhaseValue
              /\ sig.Clk = 1 - PhaseValue \/ now = obs.clockAt
C11_Witness ==
    /\ ClockActive
    /\ test.cycle = 11
    /\ self.initialized
    /\ now = obs.initDoneAt + 5
    /\ obs.phaseAt = now
    /\ obs.phaseLen = 5
    /\ sig.Clk = 1

\* C12 (as claimed): the duration the clock co-routine passes to its timers is
\* even, and for an odd configured value N it is N - 1.
C12_HalfPeriodEven ==
    (ClockActive /\ obs.halfUsed # -1) =>
        /\ obs.halfUsed % 2 = 0
        /\ test.cycle % 2 = 1 => obs.halfUsed = test.cycle - 1
\* C12 (amended): the clock period used is even, the configured CLOCK_CYCLE
\* rounded down (N - 1 for an odd N), and the duration passed to the timers is
\* exactly half of it, which need not be even.
C12_PeriodEven ==
    (ClockActive /\ obs.halfUsed # -1) =>
        /\ self.CLOCK_CYCLE % 2 = 0
        /\ self.CLOCK_CYCLE = IF test.cycle % 2 = 1 THEN test.cycle - 1 ELSE test.cycle
        /\ 2 * obs.halfUsed = self.CLOCK_CYCLE
C12_Witness ==
    /\ tpc["clock"] = "high"
    /\ test.cycle = 11
    /\ self.CLOCK_CYCLE = 10
    /\ obs.halfUsed = 5

\* C13: when init_processor completes the trace is empty and the tick counter
\* is 0, and k full clock periods later the trace holds exactly 2k snapshots,
\* whichever of the clock co-routine and the procedure woken at the same time
\* ran first.
C13_TwoSnapshotsPerPeriod ==
    /\ InitJustCompleted => self.state = <<>> /\ self.t = 0
    /\ (EndOfStep /\ self.initialized /\ (now - obs.initDoneAt) % self.CLOCK_CYCLE = 0) =>
          Len(self.state) = 2 * ((now - obs.initDoneAt) \div self.CLOCK_CYCLE)

\* C14: any two consecutive snapshots of the trace have strictly increasing
\* ticks.
C14_TicksStrictlyIncrease ==
    \A i \in 1..(Len(self.state) - 1) : self.state[i].t < self.state[i + 1].t

\* C15: once clock_ticking is cleared and nothing is left that could resume a
\* co-routine (no timer of theirs armed, none ready, no write pending, the
\* unit under test settled), every co-routine has left its loop.
NothingResumesTasks ==
    /\ DOMAIN wake \cap Tasks = {}
    /\ ready \cap Tasks = {}
    /\ DOMAIN pend = {}
    /\ ~uutPending
C15_StoppedTasksTerminate ==
    (~self.clock_ticking /\ NothingResumesTasks) =>
        \A k \in Tasks : tpc[k] \in {"none", "done", "failed"}

\* The data-input line of a read co-routine carries the word its image holds
\* now at the address on its address line now (0 when it holds none).
Readers == {"read_data_mem", "read_inst_mem"}
LineIsFresh(task) ==
    LET line == sig[AddrLine(task)]
        address == IF line = Unresolved THEN 0 ELSE line
        image == IF task = "read_data_mem" THEN self.data ELSE self.instructions
    IN sig[DataLine(task)] = IF address \in DOMAIN image THEN image[address] ELSE 0
StoredWithinHalfPeriod ==
    obs.storedAt # -1 /\ now - obs.storedAt < self.CLOCK_CYCLE \div 2

\* C16 (as claimed): whenever a read co-routine is active and its address
\* line has kept its value for a clock period, its data-input line carries
\* the word the image holds now, a word stored during that period included.
C16_StableAddressReadsImage ==
    \A task \in Readers :
        (EndOfStep /\ tpc[task] = "wait" /\ obs.addrKept[AddrLine(task)]) => LineIsFresh(task)
\* C16 (amended): the same, unless the data image was written within the last
\* half-period (the refresh timeout); after a change of the address line the
\* data-input line carries the word of the new address at the same time.
C16_StableAddressReadsSettledImage ==
    \A task \in Readers :
        (/\ EndOfStep
         /\ tpc[task] = "wait"
         /\ obs.addrKept[AddrLine(task)] => ~(task = "read_data_mem" /\ StoredWithinHalfPeriod))
        => LineIsFresh(task)
C16_Witness ==
    /\ EndOfStep
    /\ tpc["read_data_mem"] = "wait"
    /\ obs.addrKept["DAddr"]
    /\ sig.DAddr = 256
    /\ 256 \in DOMAIN self.data
    /\ self.data[256] = 42
    /\ sig.DDataIn = 42
    /\ now - obs.storedAt = 5

\* C17: while a test case runs, the instruction image never changes, and the
\* data image changes only in a step of write_data_mem resumed by a rising
\* edge, with write-enable at 1, and only at the address on the address line.
C17_OnlyWriterChangesData ==
    [][(test' = test /\ test.kind # "none") =>
          /\ self'.instructions = self.instructions
          /\ self'.data # self.data =>
                /\ "write_data_mem" \in ready
                /\ "write_data_mem" \notin ready'
                /\ tpc["write_data_mem"] = "wait"
                /\ sig.DWrEn = 1
                /\ LET address == IF sig.DAddr = Unresolved THEN 0 ELSE sig.DAddr
                   IN /\ DOMAIN self'.data = DOMAIN self.data \cup {address}
                      /\ self'.data[address] = sig.DDataOut
                      /\ \A a \in DOMAIN self.data \ {address} : self'.data[a] = self.data[a]]_vars
C17_Witness ==
    /\ IdleWriter
    /\ obs.samples >= 2
    /\ obs.prevStore = <<>>
    /\ sig.DWrEn = 0
    /\ self.data = DictSet(Empty, 256, 42)

\* C18: every snapshot of the trace reads as the program counter and the
\* registers were when it was taken, whatever the unit under test did since.
C18_SnapshotKeepsCapturedValues ==
    /\ Len(obs.captured) = Len(self.state)
    /\ \A i \in 1..Len(self.state) :
          /\ Deref(self.state[i].PC) = obs.captured[i].PC
          /\ Deref(self.state[i].regs) = obs.captured[i].r1

\* The mapping the claims describe for a text: every line of exactly two
\* tab-separated hexadecimal fields gives address -> word, the last such line
\* of an address winning; no other line counts.
TabsOf(line) == {i \in 1..Len(line) : line[i] = "\t"}
TwoHexFields(line) ==
    /\ Cardinality(TabsOf(line)) = 1
    /\ line[1] # "#"
    /\ LET tab == CHOOSE i \in TabsOf(line) : TRUE
       IN IsHex(SubSeq(line, 1, tab - 1)) /\ IsHex(SubSeq(line, tab + 1, Len(line)))
AddressOf(line) == HexValue(SubSeq(line, 1, (CHOOSE i \in TabsOf(line) : TRUE) - 1))
WordOf(line) == HexValue(SubSeq(line, (CHOOSE i \in TabsOf(line) : TRUE) + 1, Len(line)))
ExpectedImage(text) ==
    LET valid == {i \in 1..Len(text) : TwoHexFields(text[i])}
        last(a) == CHOOSE i \in valid :
                      /\ AddressOf(text[i]) = a
                      /\ \A j \in valid : AddressOf(text[j]) = a => j <= i
    IN [a \in {AddressOf(text[i]) : i \in valid} |-> WordOf(text[last(a)])]

\* C19: building the image of any text raises nothing and gives the mapping
\* of its two-field lines; comment lines, empty lines and lines of any other
\* shape are skipped.
C19_ParseNeverFails ==
    wpc \in {"constructed", "import_failed"} =>
        /\ raised = "none"
        /\ wpc = "constructed"
        /\ Truthy(test.data_text) => self.data = ExpectedImage(test.data_text)

\* C20: a test case starts from the data image of its own text (the empty
\* image without one), whatever the test cases run before it have stored.
C20_DataImagesIndependent ==
    wpc = "wrapper_begin" =>
        self.data = IF Truthy(test.data_text) THEN ExpectedImage(test.data_text) ELSE Empty

====
